---- MODULE Spec2Model ----
(***************************************************************************)
(* Challenge admission of src/model.py: Player, Challenge (time control,   *)
(* variant, mode, recency, the ordered decline chain of is_supported, and  *)
(* score) together with the recent_bot_challenges tracker the checks       *)
(* share.                                                                  *)
(***************************************************************************)
EXTENDS Integers, Sequences, FiniteSets, TLC

VARIABLES recent_bot_challenges, now, call, pc

vars == <<recent_bot_challenges, now, call, pc>>

(***************************************************************************)
(* Bounds of the model.                                                    *)
(***************************************************************************)
\* largest finite number of seconds / days drawn for a time control
MaxInt == 1
\* largest challenger rating drawn
MaxRating == 2
\* largest value drawn for max_recent_bot_challenges
MaxRecent == 2
\* most timers recorded under one challenger name
MaxTimers == 2
\* last instant of the clock
MaxTime == 3
\* most challenges one concurrent evaluation thread handles
MaxRounds == 2
\* number of evaluation threads beyond the first
MaxOtherThreads == 1

(***************************************************************************)
(* Values.  Python's None is the empty tuple, a present value x is <<x>>;  *)
(* math.inf is a number above every number drawn.                          *)
(***************************************************************************)
None == <<>>

Some(x) == <<x>>

Opt(S) == {None} \cup {Some(x) : x \in S}

Inf == 1000000

\* the window of a Timer, in clock ticks
Window == 2

Username == "me"

Names == {"me", "bot1", "carol"}

NoCall == [op |-> "none"]

(***************************************************************************)
(* Player.__init__ and Challenge.__init__                                  *)
(***************************************************************************)
Player(player_info) ==
  [name   |-> player_info.name,
   title  |-> player_info.title,
   is_bot |-> player_info.title = Some("BOT"),
   rating |-> player_info.rating]

Challenge(challenge_info, username) ==
  [rated      |-> challenge_info.rated,
   variant    |-> challenge_info.variant,
   speed      |-> challenge_info.speed,
   increment  |-> challenge_info.increment,
   base       |-> challenge_info.limit,
   days       |-> challenge_info.daysPerTurn,
   challenger |-> Player(challenge_info.challenger),
   from_self  |-> challenge_info.challenger.name = username]

(***************************************************************************)
(* Challenge.is_supported_time_control                                     *)
(***************************************************************************)
\* faulty variant: the lower increment bound taken as exclusive
is_supported_time_control_strict(ch, cfg) ==
  IF ch.speed \notin cfg.time_controls THEN FALSE
  ELSE IF ch.base # None /\ ch.increment # None
    THEN /\ cfg.min_increment < ch.increment[1]
         /\ ch.increment[1] <= cfg.max_increment
         /\ cfg.min_base <= ch.base[1]
         /\ ch.base[1] <= cfg.max_base
  ELSE IF ch.days # None
    THEN cfg.min_days <= ch.days[1] /\ ch.days[1] <= cfg.max_days
  ELSE cfg.max_days = Inf

is_supported_time_control(ch, cfg) ==
  IF ch.speed \notin cfg.time_controls THEN FALSE
  ELSE IF ch.base # None /\ ch.increment # None
    THEN /\ cfg.min_increment <= ch.increment[1]
         /\ ch.increment[1] <= cfg.max_increment
         /\ cfg.min_base <= ch.base[1]
         /\ ch.base[1] <= cfg.max_base
  ELSE IF ch.days # None
    THEN cfg.min_days <= ch.days[1] /\ ch.days[1] <= cfg.max_days
  ELSE cfg.max_days = Inf

(***************************************************************************)
(* Inputs of the time-control specification.                               *)
(***************************************************************************)
Speeds == {"blitz", "bullet"}

Variants == {"standard", "chess960"}

Carol == [name |-> "carol", title |-> None, rating |-> None]

TCInfos ==
  [rated : {FALSE}, variant : {"standard"}, speed : Speeds,
   increment : Opt(0..MaxInt), limit : Opt(0..MaxInt),
   daysPerTurn : Opt(0..MaxInt), challenger : {Carol}]

TCConfigs ==
  [time_controls : {{"blitz"}},
   min_increment : 0..MaxInt, max_increment : (0..MaxInt) \cup {Inf},
   min_base : 0..MaxInt, max_base : (0..MaxInt) \cup {Inf},
   min_days : 0..MaxInt, max_days : (0..MaxInt) \cup {Inf}]

InitTC ==
  /\ recent_bot_challenges = [n \in Names |-> <<>>]
  /\ now = 0
  /\ pc = <<>>
  /\ \E info \in TCInfos, cfg \in TCConfigs :
       call = [op |-> "pending", ch |-> Challenge(info, Username), cfg |-> cfg]

ApplyTimeControl ==
  /\ call.op = "pending"
  /\ call' = [op |-> "is_supported_time_control", ch |-> call.ch, cfg |-> call.cfg,
              result |-> is_supported_time_control(call.ch, call.cfg)]
  /\ UNCHANGED <<recent_bot_challenges, now, pc>>

NextTC == ApplyTimeControl

SpecTC == InitTC /\ [][NextTC]_vars

\* Interval membership with inclusive bounds, as the specification words it.
Within(x, lo, hi) == lo <= x /\ x <= hi

\* C9: is_supported_time_control equals the four-case reference: false when the
\* speed is not accepted; else, base and increment both present, true iff both
\* lie in their inclusive ranges; else, days present, true iff days lies in its
\* inclusive range; else true iff max_days is unbounded.
C9_TimeControlReference ==
  call.op = "is_supported_time_control" =>
    LET ch == call.ch
        cfg == call.cfg
        both == ch.base # None /\ ch.increment # None
    IN /\ ch.speed \notin cfg.time_controls => call.result = FALSE
       /\ (ch.speed \in cfg.time_controls /\ both) =>
            (call.result <=>
               /\ Within(ch.increment[1], cfg.min_increment, cfg.max_increment)
               /\ Within(ch.base[1], cfg.min_base, cfg.max_base))
       /\ (ch.speed \in cfg.time_controls /\ ~both /\ ch.days # None) =>
            (call.result <=> Within(ch.days[1], cfg.min_days, cfg.max_days))
       /\ (ch.speed \in cfg.time_controls /\ ~both /\ ch.days = None) =>
            (call.result <=> cfg.max_days = Inf)

\* C9 witness: only the base is present, days are present and in range, and the
\* days branch accepted.
C9_Witness ==
  /\ call.op = "is_supported_time_control"
  /\ call.ch.base # None /\ call.ch.increment = None /\ call.ch.days # None
  /\ call.ch.speed \in call.cfg.time_controls
  /\ call.cfg.min_base > call.ch.base[1]
  /\ call.result = TRUE

(***************************************************************************)
(* Challenge.score                                                         *)
(***************************************************************************)
\* faulty variant: the "BOT" title earns the title bonus
score_bot_titled(ch) ==
  LET rated_bonus == IF ch.rated THEN 200 ELSE 0
      challenger_master_title == ch.challenger.title
      titled_bonus ==
        IF challenger_master_title # None /\ challenger_master_title # Some("")
          THEN 200 ELSE 0
      challenger_rating_int ==
        IF ch.challenger.rating # None /\ ch.challenger.rating # Some(0)
          THEN ch.challenger.rating[1] ELSE 0
  IN challenger_rating_int + rated_bonus + titled_bonus

score(ch) ==
  LET rated_bonus == IF ch.rated THEN 200 ELSE 0
      challenger_master_title ==
        IF ~ch.challenger.is_bot THEN ch.challenger.title ELSE None
      \* a title counts when it is truthy: neither None nor the empty string
      titled_bonus ==
        IF challenger_master_title # None /\ challenger_master_title # Some("")
          THEN 200 ELSE 0
      \* rating or 0
      challenger_rating_int ==
        IF ch.challenger.rating # None /\ ch.challenger.rating # Some(0)
          THEN ch.challenger.rating[1] ELSE 0
  IN challenger_rating_int + rated_bonus + titled_bonus

(***************************************************************************)
(* Inputs of the score specification: two challenges scored side by side.  *)
(***************************************************************************)
Titles == Opt({"", "GM", "BOT"})

ScoreInfos ==
  [rated : BOOLEAN, variant : {"standard"}, speed : {"blitz"},
   increment : {None}, limit : {None}, daysPerTurn : {None},
   challenger : [name : {"bot1"}, title : Titles, rating : Opt(0..MaxRating)]]

InitScore ==
  /\ recent_bot_challenges = [n \in Names |-> <<>>]
  /\ now = 0
  /\ pc = <<>>
  /\ \E a \in ScoreInfos, b \in ScoreInfos :
       call = [op |-> "pending", ch |-> Challenge(a, Username),
               ch2 |-> Challenge(b, Username)]

ApplyScore ==
  /\ call.op = "pending"
  /\ call' = [op |-> "score", ch |-> call.ch, ch2 |-> call.ch2,
              result |-> score(call.ch), result2 |-> score(call.ch2)]
  /\ UNCHANGED <<recent_bot_challenges, now, pc>>

NextScore == ApplyScore

SpecScore == InitScore /\ [][NextScore]_vars

RatingOf(ch) == IF ch.challenger.rating = None THEN 0 ELSE ch.challenger.rating[1]

HasTitleBonus(ch) ==
  /\ ch.challenger.title \notin {None, Some("")}
  /\ ch.challenger.title # Some("BOT")

\* C10: score is the rating (0 when absent) plus 200 if rated plus 200 if the
\* challenger has a non-empty title and is not a bot; two challenges differing
\* only in rated differ by exactly 200; a challenger titled "BOT" never gets the
\* title bonus; of two challenges differing only in rating the higher-rated one
\* never scores lower.
C10_Score ==
  call.op = "score" =>
    LET a == call.ch
        b == call.ch2
    IN /\ call.result = RatingOf(a) + (IF a.rated THEN 200 ELSE 0)
                          + (IF HasTitleBonus(a) THEN 200 ELSE 0)
       /\ (a.challenger = b.challenger /\ a.rated /\ ~b.rated) =>
            call.result = call.result2 + 200
       /\ a.challenger.title = Some("BOT") =>
            call.result = RatingOf(a) + (IF a.rated THEN 200 ELSE 0)
       /\ (a.rated = b.rated /\ a.challenger.title = b.challenger.title
             /\ RatingOf(a) >= RatingOf(b)) =>
            call.result >= call.result2

\* C10 witness: a rated challenge from a titled human scored beside the same
\* challenge from a bot of equal rating: 400 above the rating against 200.
C10_Witness ==
  /\ call.op = "score"
  /\ call.ch.rated /\ call.ch2.rated
  /\ call.ch.challenger.title = Some("GM")
  /\ call.ch2.challenger.title = Some("BOT")
  /\ call.ch.challenger.rating = Some(MaxRating)
  /\ call.ch2.challenger.rating = Some(MaxRating)
  /\ call.result = MaxRating + 400
  /\ call.result2 = MaxRating + 200

(***************************************************************************)
(* Timer (timer.py, imported by model.py): a timer is the instant it was   *)
(* created at, and is expired once Window ticks have gone by.              *)
(***************************************************************************)
is_expired(timer, t) == t - timer >= Window

(***************************************************************************)
(* Configuration: a mapping from keys to values.  Reading a key the        *)
(* mapping does not hold gives None, and the membership test or filter     *)
(* applied to None raises TypeError.                                       *)
(***************************************************************************)
Missing(cfg, key) == key \notin DOMAIN cfg

Drop(cfg, key) == [k \in DOMAIN cfg \ {key} |-> cfg[k]]

(***************************************************************************)
(* Challenge.is_supported_variant, is_supported_mode, is_supported_recent  *)
(***************************************************************************)
is_supported_variant(ch, cfg) == ch.variant \in cfg.variants

mode(ch) == IF ch.rated THEN "rated" ELSE "casual"

is_supported_mode(ch, cfg) == mode(ch) \in cfg.modes

Unexpired(timers, t) == SelectSeq(timers, LAMBDA timer : ~is_expired(timer, t))

\* is_supported_recent yields the value returned and the tracker as the call
\* leaves it.
\* faulty variant: expired timers are counted and kept
is_supported_recent_no_prune(ch, cfg, tracker, t) ==
  LET name == ch.challenger.name
      max_recent_challenges == cfg.max_recent_bot_challenges
  IN [result  |-> \/ ~ch.challenger.is_bot
                  \/ max_recent_challenges = None
                  \/ Len(tracker[name]) < max_recent_challenges[1],
      tracker |-> tracker]

\* faulty variant: the count may equal the limit
is_supported_recent_at_most(ch, cfg, tracker, t) ==
  LET name == ch.challenger.name
      pruned == [tracker EXCEPT ![name] = Unexpired(tracker[name], t)]
      max_recent_challenges == cfg.max_recent_bot_challenges
  IN [result  |-> \/ ~ch.challenger.is_bot
                  \/ max_recent_challenges = None
                  \/ Len(pruned[name]) <= max_recent_challenges[1],
      tracker |-> pruned]

\* faulty variant: the limit applies to every challenger, bot or not
is_supported_recent_any_title(ch, cfg, tracker, t) ==
  LET name == ch.challenger.name
      pruned == [tracker EXCEPT ![name] = Unexpired(tracker[name], t)]
      max_recent_challenges == cfg.max_recent_bot_challenges
  IN [result  |-> \/ max_recent_challenges = None
                  \/ Len(pruned[name]) < max_recent_challenges[1],
      tracker |-> pruned]

is_supported_recent(ch, cfg, tracker, t) ==
  LET name == ch.challenger.name
      pruned == [tracker EXCEPT ![name] = Unexpired(tracker[name], t)]
      max_recent_challenges == cfg.max_recent_bot_challenges
  IN [result  |-> \/ ~ch.challenger.is_bot
                  \/ max_recent_challenges = None
                  \/ Len(pruned[name]) < max_recent_challenges[1],
      tracker |-> pruned]

(***************************************************************************)
(* Challenge.decline_due_to                                                *)
(***************************************************************************)
decline_due_to(requirement_met, decline_reason) ==
  IF requirement_met THEN "" ELSE decline_reason

(***************************************************************************)
(* The operands of the `or` chain of is_supported, in program order.  An   *)
(* operand yields [exc, reason, tracker]: exc when its evaluation raises.  *)
(***************************************************************************)
Value(reason, tracker) == [exc |-> FALSE, reason |-> reason, tracker |-> tracker]

Raised(tracker) == [exc |-> TRUE, reason |-> "", tracker |-> tracker]

\* faulty variant: the variant is checked before the time control
ChecksSwapped ==
  <<"noBot", "onlyBot", "variant", "timeControl", "mode", "block", "allow", "recent">>

Checks ==
  <<"noBot", "onlyBot", "timeControl", "variant", "mode", "block", "allow", "recent">>

Operand(check, ch, cfg, allowed_opponents, tracker, t) ==
  CASE check = "noBot" ->
         Value(decline_due_to(cfg.accept_bot \/ ~ch.challenger.is_bot, "noBot"), tracker)
    [] check = "onlyBot" ->
         Value(decline_due_to(~cfg.only_bot \/ ch.challenger.is_bot, "onlyBot"), tracker)
    [] check = "timeControl" ->
         IF Missing(cfg, "time_controls") THEN Raised(tracker)
         ELSE Value(decline_due_to(is_supported_time_control(ch, cfg), "timeControl"),
                    tracker)
    [] check = "variant" ->
         IF Missing(cfg, "variants") THEN Raised(tracker)
         ELSE Value(decline_due_to(is_supported_variant(ch, cfg), "variant"), tracker)
    [] check = "mode" ->
         IF Missing(cfg, "modes") THEN Raised(tracker)
         ELSE Value(decline_due_to(is_supported_mode(ch, cfg),
                                   IF ch.rated THEN "casual" ELSE "rated"), tracker)
    [] check = "block" ->
         IF Missing(cfg, "block_list") THEN Raised(tracker)
         ELSE Value(decline_due_to(ch.challenger.name \notin cfg.block_list, "generic"),
                    tracker)
    [] check = "allow" ->
         Value(decline_due_to(ch.challenger.name \in allowed_opponents, "generic"),
               tracker)
    [] check = "recent" ->
         LET r == is_supported_recent(ch, cfg, tracker, t)
         IN Value(decline_due_to(r.result, "later"), r.tracker)

\* a or b or ...: the first truthy operand, else the last one; an operand after
\* a truthy one is not evaluated
RECURSIVE OrChain(_, _, _, _, _, _, _)
OrChain(i, last, ch, cfg, allowed_opponents, tracker, t) ==
  LET o == Operand(Checks[i], ch, cfg, allowed_opponents, tracker, t)
  IN IF o.exc \/ o.reason # "" \/ i = last THEN o
     ELSE OrChain(i + 1, last, ch, cfg, allowed_opponents, o.tracker, t)

(***************************************************************************)
(* Challenge.is_supported: the try block, then the except clause           *)
(***************************************************************************)
\* the try block as far as operand number last of the chain
is_supported_upto(last, ch, cfg, tracker, t) ==
  IF ch.from_self THEN Value("", tracker)
  ELSE IF Missing(cfg, "allow_list") THEN Raised(tracker)
  ELSE LET filtered == cfg.allow_list \ {""}
           allowed_opponents ==
             IF filtered # {} THEN filtered ELSE {ch.challenger.name}
       IN OrChain(1, last, ch, cfg, allowed_opponents, tracker, t)

is_supported_try(ch, cfg, tracker, t) ==
  is_supported_upto(Len(Checks), ch, cfg, tracker, t)

\* is_supported yields the pair returned, the tracker as the call leaves it, and
\* propagated: whether an exception reaches the caller.
\* faulty variant: no except clause
is_supported_no_except(ch, cfg, tracker, t) ==
  LET r == is_supported_try(ch, cfg, tracker, t)
  IN [accepted |-> ~r.exc /\ r.reason = "", reason |-> r.reason,
      propagated |-> r.exc, tracker |-> r.tracker]

\* faulty variant: the from_self shortcut is missing
is_supported_self_checked(ch, cfg, tracker, t) ==
  LET r == is_supported_try([ch EXCEPT !.from_self = FALSE], cfg, tracker, t)
  IN IF r.exc
       THEN [accepted |-> FALSE, reason |-> "generic", propagated |-> FALSE,
             tracker |-> r.tracker]
       ELSE [accepted |-> r.reason = "", reason |-> r.reason, propagated |-> FALSE,
             tracker |-> r.tracker]

\* faulty variant: the except clause returns True
is_supported_fallback_accepts(ch, cfg, tracker, t) ==
  LET r == is_supported_try(ch, cfg, tracker, t)
  IN IF r.exc
       THEN [accepted |-> TRUE, reason |-> "generic", propagated |-> FALSE,
             tracker |-> r.tracker]
       ELSE [accepted |-> r.reason = "", reason |-> r.reason, propagated |-> FALSE,
             tracker |-> r.tracker]

is_supported(ch, cfg, tracker, t) ==
  LET r == is_supported_try(ch, cfg, tracker, t)
  IN IF r.exc
       THEN [accepted |-> FALSE, reason |-> "generic", propagated |-> FALSE,
             tracker |-> r.tracker]
       ELSE [accepted |-> r.reason = "", reason |-> r.reason, propagated |-> FALSE,
             tracker |-> r.tracker]

(***************************************************************************)
(* Inputs of the chain specification: every combination of challenger,     *)
(* mode, variant, speed and time-control shape against every combination   *)
(* of policy fields, at most one collection key absent from the policy.    *)
(***************************************************************************)
Me == [name |-> Username, title |-> Some("BOT"), rating |-> None]

Bot1 == [name |-> "bot1", title |-> Some("BOT"), rating |-> None]

\* increment, limit, daysPerTurn
TimeControlShapes ==
  { <<Some(0), Some(1), None>>, <<Some(0), Some(0), None>>, <<None, None, Some(1)>> }

ChainInfos ==
  { [rated |-> r, variant |-> v, speed |-> s,
     increment |-> tc[1], limit |-> tc[2], daysPerTurn |-> tc[3], challenger |-> p] :
      r \in BOOLEAN, v \in Variants, s \in Speeds, tc \in TimeControlShapes,
      p \in {Me, Bot1, Carol} }

FullConfigs ==
  [time_controls : {{"blitz"}},
   min_increment : {0}, max_increment : {Inf},
   min_base : {1}, max_base : {Inf},
   min_days : {0}, max_days : {Inf},
   variants : {{"standard"}},
   modes : {{"casual"}, {"rated"}, {"casual", "rated"}},
   accept_bot : BOOLEAN, only_bot : BOOLEAN,
   block_list : {{}, {"me", "bot1"}, {"carol"}},
   allow_list : {{}, {""}, {"", "bot1"}, {"carol"}},
   max_recent_bot_challenges : Opt(0..MaxRecent)]

CollectionKeys == {"time_controls", "variants", "modes", "block_list", "allow_list"}

FullPolicy(cfg) == \A key \in CollectionKeys : ~Missing(cfg, key)

ChainConfigs ==
  FullConfigs \cup { Drop(cfg, key) : cfg \in FullConfigs, key \in CollectionKeys }

\* k timers under one name at instant Window: the oldest created at 0 and by now
\* expired, the others created now
TimersOf(k) == [i \in 1..k |-> IF i = 1 THEN 0 ELSE Window]

InitChain ==
  /\ \E k \in 0..MaxTimers : recent_bot_challenges = [n \in Names |-> TimersOf(k)]
  /\ now = Window
  /\ pc = <<>>
  /\ \E info \in ChainInfos, cfg \in ChainConfigs :
       call = [op |-> "pending", ch |-> Challenge(info, Username), cfg |-> cfg]

ApplyIsSupported ==
  /\ call.op = "pending"
  /\ LET r == is_supported(call.ch, call.cfg, recent_bot_challenges, now)
     IN /\ call' = [op |-> "is_supported", ch |-> call.ch, cfg |-> call.cfg,
                    accepted |-> r.accepted, reason |-> r.reason,
                    propagated |-> r.propagated, before |-> recent_bot_challenges]
        /\ recent_bot_challenges' = r.tracker
  /\ UNCHANGED <<now, pc>>

NextChain == ApplyIsSupported

SpecChain == InitChain /\ [][NextChain]_vars

(***************************************************************************)
(* Properties of is_supported over the chain specification.                *)
(***************************************************************************)
Returned == call.op = "is_supported"

\* C1: a challenge whose from_self flag is true is accepted with the empty
\* reason under every policy and every tracker content.
C1_SelfAccepted ==
  (Returned /\ call.ch.from_self) =>
    (call.accepted /\ call.reason = "" /\ ~call.propagated)

\* C1 witness: the caller's own challenge accepted although the caller is a bot,
\* bots are refused, the caller is on the block list and off the allow list.
C1_Witness ==
  /\ Returned /\ call.ch.from_self /\ call.ch.challenger.is_bot
  /\ FullPolicy(call.cfg)
  /\ ~call.cfg.accept_bot
  /\ call.ch.challenger.name \in call.cfg.block_list
  /\ call.cfg.allow_list = {"carol"}
  /\ call.accepted /\ call.reason = ""

\* C2: the reason returned is empty if and only if the challenge is accepted, on
\* the normal path and on the exception fallback path.
C2_ReasonIffAccepted ==
  Returned => (call.reason = "" <=> call.accepted)

\* C2 witness: the fallback path: the policy has no variants, the evaluation
\* raises and the call declines with "generic".
C2_Witness ==
  /\ Returned /\ Missing(call.cfg, "variants")
  /\ is_supported_try(call.ch, call.cfg, call.before, now).exc
  /\ call.reason = "generic" /\ ~call.accepted

ClaimOrder ==
  <<"noBot", "onlyBot", "timeControl", "variant", "mode", "block", "allow", "recent">>

ClaimReason(check, ch) ==
  CASE check = "mode" -> IF ch.rated THEN "casual" ELSE "rated"
    [] check \in {"block", "allow"} -> "generic"
    [] check = "recent" -> "later"
    [] OTHER -> check

AllowedOpponents(ch, cfg) ==
  IF cfg.allow_list \ {""} # {} THEN cfg.allow_list \ {""} ELSE {ch.challenger.name}

\* the check, taken alone on the state the call started from
Alone(check) ==
  Operand(check, call.ch, call.cfg, AllowedOpponents(call.ch, call.cfg),
          call.before, now)

Fails(check) == ~Alone(check).exc /\ Alone(check).reason # ""

Passes(check) == ~Alone(check).exc /\ Alone(check).reason = ""

\* C3: for a challenge that is not self-initiated, the reason returned is that
\* of the earliest failing check in the order noBot, onlyBot, timeControl,
\* variant, mode, block list, allow list, recency, whatever the later checks
\* would give.
C3_EarliestFailingCheck ==
  (Returned /\ ~call.ch.from_self /\ ~Missing(call.cfg, "allow_list")) =>
    \A i \in 1..Len(ClaimOrder) :
      (Fails(ClaimOrder[i]) /\ \A j \in 1..(i - 1) : Passes(ClaimOrder[j])) =>
        (call.reason = ClaimReason(ClaimOrder[i], call.ch) /\ ~call.accepted)

\* C3 witness: time control, variant, mode, block list and recency all fail and
\* the reason is that of the time control.
C3_Witness ==
  /\ Returned /\ ~call.ch.from_self /\ FullPolicy(call.cfg)
  /\ Passes("noBot") /\ Passes("onlyBot")
  /\ Fails("timeControl") /\ Fails("variant") /\ Fails("mode")
  /\ Fails("block") /\ Fails("recent")
  /\ call.reason = "timeControl"

\* C6: when a step of the evaluation raises, no exception reaches the caller and
\* the result is (False, "generic"); no call lets an exception through.
C6_Total ==
  Returned =>
    /\ ~call.propagated
    /\ is_supported_try(call.ch, call.cfg, call.before, now).exc =>
         (~call.accepted /\ call.reason = "generic")
    /\ (~call.ch.from_self /\ Missing(call.cfg, "allow_list")) =>
         (~call.accepted /\ call.reason = "generic")

\* C6 witness: every check up to the mode passes, the policy has no modes, and
\* the call declines with "generic".
C6_Witness ==
  /\ Returned /\ ~call.ch.from_self /\ Missing(call.cfg, "modes")
  /\ Passes("noBot") /\ Passes("onlyBot") /\ Passes("timeControl") /\ Passes("variant")
  /\ Alone("mode").exc
  /\ ~call.accepted /\ call.reason = "generic" /\ ~call.propagated

\* C8: a challenger who is not a bot never gets the reason "later", whatever
\* the timers under that name and whatever max_recent_bot_challenges, 0 included.
C8_HumanNeverLater ==
  (Returned /\ ~call.ch.challenger.is_bot) => call.reason # "later"

\* C8 witness: a human with an unexpired timer under their name is accepted
\* with max_recent_bot_challenges at 0.
C8_Witness ==
  /\ Returned /\ ~call.ch.challenger.is_bot /\ ~call.ch.from_self
  /\ call.cfg.max_recent_bot_challenges = Some(0)
  /\ Len(Unexpired(call.before[call.ch.challenger.name], now)) >= 1
  /\ call.accepted

(***************************************************************************)
(* The tracker over time: challenges are evaluated against the shared      *)
(* recent_bot_challenges, acceptances are recorded, and the clock moves.   *)
(***************************************************************************)
MainInfos ==
  { [rated |-> FALSE, variant |-> "standard", speed |-> "blitz",
     increment |-> Some(0), limit |-> Some(1), daysPerTurn |-> None,
     challenger |-> p] : p \in {Me, Bot1, Carol} }

MainFullConfigs ==
  [time_controls : {{"blitz"}},
   min_increment : {0}, max_increment : {Inf},
   min_base : {1}, max_base : {Inf},
   min_days : {0}, max_days : {Inf},
   variants : {{"standard"}},
   modes : {{"casual", "rated"}},
   accept_bot : BOOLEAN, only_bot : {FALSE},
   block_list : {{}, {"carol"}},
   allow_list : {{}},
   max_recent_bot_challenges : Opt(0..MaxRecent)]

MainConfigs == MainFullConfigs \cup { Drop(cfg, "variants") : cfg \in MainFullConfigs }

Init ==
  /\ recent_bot_challenges = [n \in Names |-> <<>>]
  /\ now = 0
  /\ call = NoCall
  /\ pc = <<>>

\* Challenge.is_supported(config, recent_bot_challenges)
IsSupported ==
  \E info \in MainInfos, cfg \in MainConfigs :
    LET ch == Challenge(info, Username)
        r == is_supported(ch, cfg, recent_bot_challenges, now)
    IN /\ call = NoCall
       /\ call' = [op |-> "is_supported", ch |-> ch, cfg |-> cfg,
                   accepted |-> r.accepted, reason |-> r.reason,
                   propagated |-> r.propagated, before |-> recent_bot_challenges]
       /\ recent_bot_challenges' = r.tracker
       /\ UNCHANGED <<now, pc>>

\* Challenge.is_supported_recent(config, recent_bot_challenges)
IsSupportedRecent ==
  \E info \in MainInfos, cfg \in MainFullConfigs :
    LET ch == Challenge(info, Username)
        r == is_supported_recent(ch, cfg, recent_bot_challenges, now)
    IN /\ call = NoCall
       /\ ~ch.from_self
       /\ call' = [op |-> "is_supported_recent", ch |-> ch, cfg |-> cfg,
                   result |-> r.result, before |-> recent_bot_challenges]
       /\ recent_bot_challenges' = r.tracker
       /\ UNCHANGED <<now, pc>>

\* an acceptance: the caller appends a timer under the challenger's name
Record ==
  \E name \in Names \ {Username} :
    /\ call = NoCall
    /\ Len(recent_bot_challenges[name]) < MaxTimers
    /\ recent_bot_challenges' =
         [recent_bot_challenges EXCEPT ![name] = Append(@, now)]
    /\ call' = NoCall
    /\ UNCHANGED <<now, pc>>

Tick ==
  /\ call = NoCall
  /\ now < MaxTime
  /\ now' = now + 1
  /\ call' = NoCall
  /\ UNCHANGED <<recent_bot_challenges, pc>>

\* the caller has taken the value returned
Return ==
  /\ call # NoCall
  /\ call' = NoCall
  /\ UNCHANGED <<recent_bot_challenges, now, pc>>

Next == IsSupported \/ IsSupportedRecent \/ Return \/ Record \/ Tick

Spec == Init /\ [][Next]_vars

NoExpired(timers) == \A i \in 1..Len(timers) : now - timers[i] < Window

Live(timers) == SelectSeq(timers, LAMBDA x : now - x < Window)

Challenger == call.ch.challenger.name

\* C4: for a bot challenger is_supported_recent first removes every expired
\* timer under the challenger's name, then returns true iff the limit is unset
\* or fewer unexpired timers than the limit remain: with the limit at N >= 1 and
\* N unexpired timers it returns false, and once all have expired it returns
\* true and leaves no timer; is_supported then declines with "later" exactly
\* when the limit is reached.
C4_PruneThenCount ==
  /\ (call.op = "is_supported_recent" /\ call.ch.challenger.is_bot) =>
       LET limit == call.cfg.max_recent_bot_challenges
           left == recent_bot_challenges[Challenger]
       IN /\ left = Live(call.before[Challenger])
          /\ NoExpired(left)
          /\ \A n \in Names \ {Challenger} :
               recent_bot_challenges[n] = call.before[n]
          /\ call.result <=> (limit = None \/ Len(left) < limit[1])
          /\ (limit # None /\ limit[1] >= 1
                /\ Len(call.before[Challenger]) = limit[1]
                /\ NoExpired(call.before[Challenger])) => ~call.result
          /\ (limit # None /\ limit[1] >= 1
                /\ Live(call.before[Challenger]) = <<>>) =>
               (call.result /\ left = <<>>)
  /\ (Returned /\ call.ch.challenger.is_bot /\ ~call.ch.from_self
        /\ FullPolicy(call.cfg) /\ call.cfg.accept_bot
        /\ call.cfg.max_recent_bot_challenges # None) =>
       (call.reason = "later" <=>
          Len(Live(call.before[Challenger])) >= call.cfg.max_recent_bot_challenges[1])

\* C4 witness: the limit equals the number of timers once recorded under the
\* bot, all of them have expired, and the check returns true and leaves none.
C4_Witness ==
  /\ call.op = "is_supported_recent" /\ call.ch.challenger.is_bot
  /\ call.cfg.max_recent_bot_challenges = Some(MaxTimers)
  /\ Len(call.before[Challenger]) = MaxTimers
  /\ call.result /\ recent_bot_challenges[Challenger] = <<>>

\* C4 second witness: the limit is reached and is_supported declines with "later".
C4_WitnessLater ==
  /\ Returned /\ call.ch.challenger.is_bot
  /\ call.cfg.max_recent_bot_challenges = Some(MaxTimers)
  /\ Len(call.before[Challenger]) = MaxTimers /\ NoExpired(call.before[Challenger])
  /\ call.reason = "later"

\* the call got as far as the recency check: not self-initiated, and every
\* earlier check passed without raising
ReachedRecency ==
  /\ ~call.ch.from_self
  /\ ~Missing(call.cfg, "allow_list")
  /\ \A i \in 1..(Len(ClaimOrder) - 1) : Passes(ClaimOrder[i])

\* C7 as claimed: after any is_supported call, whatever its verdict, the tracker
\* holds no expired timer under the challenger's name.
C7_EveryCallPrunes ==
  Returned => NoExpired(recent_bot_challenges[Challenger])

\* C7 as amended: an is_supported call that reaches the recency check leaves no
\* expired timer under the challenger's name; a call that returns before it
\* leaves the tracker as it was.
C7_PrunesWhenReached ==
  Returned =>
    IF ReachedRecency
      THEN /\ NoExpired(recent_bot_challenges[Challenger])
           /\ recent_bot_challenges[Challenger] = Live(call.before[Challenger])
      ELSE recent_bot_challenges = call.before

\* C7 witness: a call that reached the recency check with an expired timer
\* under the challenger's name, and removed it.
C7_Witness ==
  /\ Returned /\ ReachedRecency
  /\ ~NoExpired(call.before[Challenger])
  /\ NoExpired(recent_bot_challenges[Challenger])
  /\ Len(recent_bot_challenges[Challenger]) < Len(call.before[Challenger])

(***************************************************************************)
(* Concurrent evaluations: several threads each evaluate a challenge of    *)
(* the same bot against the shared tracker and, on acceptance, record it.  *)
(* model.py takes no lock, so a thread runs is_supported in steps another  *)
(* thread's steps fall between: the operands before the recency check and  *)
(* the read of the timer list (line 90), one is_expired call per timer of  *)
(* that list, the store of the filtered list (line 89), then the read of   *)
(* the limit and of the stored length (lines 91-96).  The list object a    *)
(* thread iterates is the shared one until some thread stores a new list   *)
(* under the name; from then on it is the old object, which nobody         *)
(* appends to any more.                                                    *)
(***************************************************************************)
Threads == 0..MaxOtherThreads

BotInfo ==
  [rated |-> FALSE, variant |-> "standard", speed |-> "blitz",
   increment |-> Some(0), limit |-> Some(1), daysPerTurn |-> None,
   challenger |-> Bot1]

ConcConfigs ==
  { cfg \in MainFullConfigs :
      /\ cfg.block_list = {}
      /\ cfg.max_recent_bot_challenges \notin {None, Some(0)} }

\* a thread outside is_supported, or between its return and the recording
Outside(at, handled) ==
  [at |-> at, handled |-> handled, shared |-> TRUE, old |-> <<>>, idx |-> 0,
   kept |-> <<>>]

InitConc ==
  /\ recent_bot_challenges = [n \in Names |-> <<>>]
  /\ now = 0
  /\ \E cfg \in ConcConfigs : call = [op |-> "policy", cfg |-> cfg]
  /\ pc = [p \in Threads |-> Outside("idle", 0)]

\* the list object thread p iterates
Iterated(p) ==
  IF pc[p].shared THEN recent_bot_challenges["bot1"] ELSE pc[p].old

\* lines 102-120 and the subscript of line 90: thread p enters is_supported,
\* evaluates the operands before the recency check and, if none declines or
\* raises, takes the list stored under the challenger's name
ThreadIsSupported(p) ==
  /\ pc[p].at = "idle" /\ pc[p].handled < MaxRounds
  /\ LET ch == Challenge(BotInfo, Username)
         r == is_supported_upto(Len(Checks) - 1, ch, call.cfg,
                                recent_bot_challenges, now)
     IN pc' = [pc EXCEPT ![p] =
                 IF ch.from_self
                   THEN Outside("accepted", @.handled + 1)
                 ELSE IF r.exc \/ r.reason # ""
                   THEN Outside("idle", @.handled + 1)
                 ELSE [at |-> "filter", handled |-> @.handled + 1, shared |-> TRUE,
                       old |-> <<>>, idx |-> 0, kept |-> <<>>]]
  /\ UNCHANGED <<recent_bot_challenges, now, call>>

\* line 90, one turn of the comprehension: the next timer of the list, if there
\* is one, is kept unless timer.is_expired()
ThreadFilter(p) ==
  /\ pc[p].at = "filter"
  /\ pc' = [pc EXCEPT ![p] =
              IF @.idx < Len(Iterated(p))
                THEN [@ EXCEPT !.idx = @ + 1,
                               !.kept = IF is_expired(Iterated(p)[pc[p].idx + 1], now)
                                          THEN @ ELSE Append(@, Iterated(p)[pc[p].idx + 1])]
                ELSE [@ EXCEPT !.at = "store"]]
  /\ UNCHANGED <<recent_bot_challenges, now, call>>

\* line 89: the filtered list is stored under the name; the list the other
\* threads are iterating is no longer the one stored
ThreadStore(p) ==
  /\ pc[p].at = "store"
  /\ recent_bot_challenges' = [recent_bot_challenges EXCEPT !["bot1"] = pc[p].kept]
  /\ pc' = [q \in Threads |->
              IF q = p THEN [pc[p] EXCEPT !.at = "count"]
              ELSE IF pc[q].at = "filter" /\ pc[q].shared
                THEN [pc[q] EXCEPT !.shared = FALSE,
                                   !.old = recent_bot_challenges["bot1"]]
              ELSE pc[q]]
  /\ UNCHANGED <<now, call>>

\* lines 91-96 and 121-126: the limit against the length of the list stored
\* under the name now, and the return of is_supported
ThreadCount(p) ==
  /\ pc[p].at = "count"
  /\ LET ch == Challenge(BotInfo, Username)
         max_recent_challenges == call.cfg.max_recent_bot_challenges
         result == \/ ~ch.challenger.is_bot
                   \/ max_recent_challenges = None
                   \/ Len(recent_bot_challenges["bot1"]) < max_recent_challenges[1]
         decline_reason == decline_due_to(result, "later")
     IN pc' = [pc EXCEPT ![p] =
                 Outside(IF decline_reason = "" THEN "accepted" ELSE "idle", @.handled)]
  /\ UNCHANGED <<recent_bot_challenges, now, call>>

\* thread p records the acceptance
ThreadRecord(p) ==
  /\ pc[p].at = "accepted"
  /\ recent_bot_challenges' =
       [recent_bot_challenges EXCEPT !["bot1"] = Append(@, now)]
  /\ pc' = [pc EXCEPT ![p].at = "idle"]
  /\ UNCHANGED <<now, call>>

ThreadTick ==
  /\ now < MaxTime
  /\ now' = now + 1
  /\ UNCHANGED <<recent_bot_challenges, call, pc>>

NextConc ==
  \/ \E p \in Threads : ThreadIsSupported(p)
  \/ \E p \in Threads : ThreadFilter(p)
  \/ \E p \in Threads : ThreadStore(p)
  \/ \E p \in Threads : ThreadCount(p)
  \/ \E p \in Threads : ThreadRecord(p)
  \/ ThreadTick

SpecConc == InitConc /\ [][NextConc]_vars

Accepting == { p \in Threads : pc[p].at = "accepted" }

\* C5: concurrent evaluations of one bot's challenges are serialized: the
\* acceptances in progress and the unexpired timers recorded never exceed
\* max_recent_bot_challenges together, so two evaluations never both pass the
\* recency check when the limit is one above the unexpired count.
C5_Serialized ==
  call.op = "policy" =>
    Cardinality(Accepting) + Len(Live(recent_bot_challenges["bot1"]))
      <= call.cfg.max_recent_bot_challenges[1]

====
